---- MODULE Spec2Model ----
(***************************************************************************)
(* Undo/redo journal of alix (alix/history_manager.py): the two bounded    *)
(* stacks of operation records, the dispatcher that inverts or re-applies  *)
(* a record against the alias store, and the persisted journal document.   *)
(***************************************************************************)
EXTENDS Integers, Sequences, FiniteSets, TLC

\* history_manager.py:10
MAX_HISTORY == 20

\* ------------------------------------------------------------------ bounds
\* Longest batch of alias snapshots in the records of the add family.
MaxBatch == 2
\* Records pushed at most under Spec (the dispatcher's specification).
MaxJournal == 1
\* Pushes made at most under SpecLog (the operation log's specification).
MaxPush == 22
\* State-changing replays (undo, redo, by-id) made at most under SpecLog.
MaxReplay == 1
\* Largest operation id tried by the by-id entry points, besides len + 1.
MaxId == 2

\* -------------------------------------------------------------- the data
\* a.get("name") is None or empty / "group" is None / a key that is absent.
NoName == ""
NoGroup == "None"
NoValue == ""

Names == {"a", "b"}

\* An alias object: name, command, optional group, ordered tags.
Alias(n, c, g, ts) == [name |-> n, command |-> c, group |-> g, tags |-> ts]

\* storage.aliases.get(name) is None
Absent == Alias(NoName, NoValue, NoGroup, <<>>)

\* One element of a record's "aliases" list.  shape "map" is a mapping (a
\* snapshot, whose absent keys are NoName / NoValue / NoGroup / <<>>); shape
\* "scalar" is a list element that is no mapping at all (push accepts any list).
Snap(n, c, g, ts) ==
    [shape |-> "map", name |-> n, command |-> c, group |-> g, tags |-> ts]
Malformed == Snap(NoName, NoValue, NoGroup, <<>>)
Scalar == [shape |-> "scalar", name |-> NoName, command |-> NoValue,
           group |-> NoGroup, tags |-> <<>>]

\* Alias.from_dict succeeds: a mapping with a non-empty name and a command.
WellFormed(a) == a.shape = "map" /\ a.name # NoName /\ a.command # NoValue

\* Alias.from_dict(data), for well-formed data: a fresh alias object.
FromDict(a) == Alias(a.name, a.command, a.group, a.tags)

KnownTypes ==
    {"add", "remove", "edit", "import", "rename",
     "group_add", "group_remove", "group_delete",
     "tag_add", "tag_remove", "tag_rename", "tag_delete",
     "group_import", "remove_group"}

\* An operation record as handed to push.  akind tells what the "aliases" key
\* holds: "list", "scalar" (a value that is no list) or "missing" (no such
\* key); type NoValue is a missing "type" key; timestamp 0 is a missing
\* "timestamp" key.
Op(t, as) ==
    [type |-> t, akind |-> "list", aliases |-> as, timestamp |-> 0,
     new_aliases |-> <<>>, old_name |-> NoName, new_name |-> NoName,
     group_name |-> NoGroup, reassign_to |-> NoGroup,
     added_tags |-> <<>>, removed_tags |-> <<>>,
     old_tag |-> NoValue, new_tag |-> NoValue, deleted_tag |-> NoValue]

\* ------------------------------------------------------------ sequences
Last(s) == s[Len(s)]
Front(s) == SubSeq(s, 1, Len(s) - 1)
\* s[-n:]
Tail_n(s, n) == IF Len(s) <= n THEN s ELSE SubSeq(s, Len(s) - n + 1, Len(s))
\* del s[i]  (i is 1-based here)
DelAt(s, i) == SubSeq(s, 1, i - 1) \o SubSeq(s, i + 1, Len(s))
InSeq(x, s) == \E i \in 1..Len(s) : s[i] = x

\* ------------------------------------------------------- the alias store
\* What the environment makes fail during one call: nothing, the store's add
\* or remove for one name, the store's create_backup or save, or the write of
\* the journal file.
NoFail == [op |-> "none", name |-> NoName]
Fail(o, n) == [op |-> o, name |-> n]
FailModes ==
    {NoFail} \cup {Fail(o, n) : o \in {"add", "remove"}, n \in Names}
             \cup {Fail("create_backup", NoName), Fail("save", NoName),
                   Fail("journal_write", NoName)}

\* The outcome of one call of a per-item lambda: the store after it, and
\* "true" / "false" (a falsy return value) / "raise".
Out(st, r) == [st |-> st, ret |-> r]

\* storage.add(alias, record_history=False): inserts or overwrites by name.
StoreAdd(st, alias, F) ==
    IF F.op = "add" /\ F.name = alias.name THEN Out(st, "raise")
    ELSE Out([st EXCEPT ![alias.name] = alias], "true")

\* storage.remove(name, record_history=False): deletes by name; False when the
\* name is not in the store.
StoreRemove(st, name, F) ==
    IF F.op = "remove" /\ F.name = name THEN Out(st, "raise")
    ELSE IF st[name] = Absent THEN Out(st, "false")
    ELSE Out([st EXCEPT ![name] = Absent], "true")

\* storage.aliases[alias.name] = alias
StorePut(st, alias) == [st EXCEPT ![alias.name] = alias]

\* ----------------------------------------------------------- tag helpers
RECURSIVE AddTagsFrom(_, _, _)
AddTagsFrom(ts, tags, i) ==
    IF i > Len(tags) THEN ts
    ELSE AddTagsFrom(IF InSeq(tags[i], ts) THEN ts ELSE Append(ts, tags[i]),
                     tags, i + 1)
\* _add_tags: append each tag the alias does not carry yet.
AddTags(ts, tags) == AddTagsFrom(ts, tags, 1)

\* list.remove(tag): drops the first occurrence.
RemoveFirst(ts, tag) ==
    LET i == CHOOSE k \in 1..Len(ts) :
                 ts[k] = tag /\ \A j \in 1..(k - 1) : ts[j] # tag
    IN DelAt(ts, i)
RECURSIVE RemoveTagsFrom(_, _, _)
RemoveTagsFrom(ts, tags, i) ==
    IF i > Len(tags) THEN ts
    ELSE RemoveTagsFrom(IF InSeq(tags[i], ts) THEN RemoveFirst(ts, tags[i]) ELSE ts,
                        tags, i + 1)
\* _remove_tags: remove each tag the alias carries.
RemoveTags(ts, tags) == RemoveTagsFrom(ts, tags, 1)

\* [to if tag == from else tag for tag in alias.tags]
ReplaceTag(ts, from, to) ==
    [i \in 1..Len(ts) |-> IF ts[i] = from THEN to ELSE ts[i]]

\* _set_group without the assignment to alias.group.
SetGroupKeeps(st, alias, g) == Out(StorePut(st, alias), "true")

\* _set_group: alias.group = group; storage.aliases[alias.name] = alias
SetGroup(st, alias, g) == Out(StorePut(st, [alias EXCEPT !.group = g]), "true")

\* ------------------------------------------------- the per-item lambdas
\* The parameters of a lambda: names or tags from / to, a group, a tag list.
Param(from, to, g, tags) == [from |-> from, to |-> to, group |-> g, tags |-> tags]
NoParam == Param(NoValue, NoValue, NoGroup, <<>>)

\* edit: (storage.remove(alias.name), storage.add(alias))[1]
ItemRemoveAdd(st, alias, F) ==
    LET r1 == StoreRemove(st, alias.name, F) IN
    IF r1.ret = "raise" THEN r1 ELSE StoreAdd(r1.st, alias, F)

\* The rename lambda without storage.remove(from).
ItemRenameKeepsSource(st, alias, p, F) ==
    LET r2 == StoreAdd(st, [alias EXCEPT !.name = p.to], F) IN
    IF r2.ret = "raise" THEN r2 ELSE Out(r2.st, "true")

\* rename: (storage.remove(from), setattr(alias, 'name', to),
\*          storage.add(alias), True)[-1]
ItemRename(st, alias, p, F) ==
    LET r1 == StoreRemove(st, p.from, F) IN
    IF r1.ret = "raise" THEN r1
    ELSE LET r2 == StoreAdd(r1.st, [alias EXCEPT !.name = p.to], F) IN
         IF r2.ret = "raise" THEN r2 ELSE Out(r2.st, "true")

\* tag_rename: from in alias.tags and (setattr(alias, 'tags', ...),
\*             storage.aliases.__setitem__(alias.name, alias), True)[-1]
ItemReplaceTag(st, alias, p) ==
    IF ~InSeq(p.from, alias.tags) THEN Out(st, "false")
    ELSE Out(StorePut(st, [alias EXCEPT !.tags = ReplaceTag(@, p.from, p.to)]),
             "true")

\* The group_import undo lambda toggling the live alias's membership.
ItemLeaveGroupToggle(st, alias, p) ==
    IF st[alias.name].group = p.group THEN SetGroup(st, alias, NoGroup)
    ELSE SetGroup(st, alias, p.group)

\* group_import undo: self._set_group(storage, alias, None)
\*                    if alias.group == group_name else True
ItemLeaveGroup(st, alias, p) ==
    IF alias.group = p.group THEN SetGroup(st, alias, NoGroup) ELSE Out(st, "true")

\* The lambda of kind `kind` applied to one alias object.
Item(kind, p, alias, st, F) ==
    CASE kind = "add" -> StoreAdd(st, alias, F)
      [] kind = "remove_add" -> ItemRemoveAdd(st, alias, F)
      [] kind = "rename" -> ItemRename(st, alias, p, F)
      [] kind = "set_group" -> SetGroup(st, alias, p.group)
      [] kind = "add_tags" ->
            Out(StorePut(st, [alias EXCEPT !.tags = AddTags(@, p.tags)]), "true")
      [] kind = "remove_tags" ->
            Out(StorePut(st, [alias EXCEPT !.tags = RemoveTags(@, p.tags)]), "true")
      [] kind = "replace_tag" -> ItemReplaceTag(st, alias, p)
      [] kind = "leave_group" -> ItemLeaveGroup(st, alias, p)

\* ------------------------------------------------ best-effort batch apply
\* The tally of a batch: the store so far, the counts, and whether an
\* exception left the loop (it is then raised to the caller).
Tally(st, performed, skipped, raised) ==
    [st |-> st, performed |-> performed, skipped |-> skipped, raised |-> raised]

Count(acc, r) ==
    Tally(r.st,
          acc.performed + (IF r.ret = "true" THEN 1 ELSE 0),
          acc.skipped + (IF r.ret = "raise" THEN 1 ELSE 0),
          FALSE)

RECURSIVE EachAlias(_, _, _, _, _, _)
EachAlias(aliases, i, kind, p, acc, F) ==
    IF i > Len(aliases) THEN acc
    ELSE IF ~WellFormed(aliases[i])
         THEN EachAlias(aliases, i + 1, kind, p,
                        [acc EXCEPT !.skipped = @ + 1], F)
         ELSE EachAlias(aliases, i + 1, kind, p,
                        Count(acc, Item(kind, p, FromDict(aliases[i]), acc.st, F)), F)
\* _for_each_alias(aliases, fn): _load_alias and fn are both inside the try.
ForEachAlias(aliases, kind, p, st, F) ==
    EachAlias(aliases, 1, kind, p, Tally(st, 0, 0, FALSE), F)

RECURSIVE EachName(_, _, _, _)
EachName(aliases, i, acc, F) ==
    IF i > Len(aliases) THEN acc
    ELSE IF aliases[i].shape # "map"
         THEN [acc EXCEPT !.raised = TRUE]
         ELSE IF aliases[i].name = NoName
              THEN EachName(aliases, i + 1, [acc EXCEPT !.skipped = @ + 1], F)
              ELSE EachName(aliases, i + 1,
                            Count(acc, StoreRemove(acc.st, aliases[i].name, F)), F)
\* _for_each_name returning from inside the loop, after the first item.
ForEachNameFirstOnly(aliases, st, F) ==
    EachName(IF aliases = <<>> THEN aliases ELSE <<aliases[1]>>, 1,
             Tally(st, 0, 0, FALSE), F)

\* _for_each_name(aliases, fn), fn = storage.remove: a.get("name") is outside
\* the try, so an element that is no mapping raises out of the loop.
ForEachName(aliases, st, F) == EachName(aliases, 1, Tally(st, 0, 0, FALSE), F)

\* ----------------------------------------------------- the result message
\* 'remove' in op_type, for the known types.
ContainsRemove(t) == t \in {"remove", "group_remove", "tag_remove", "remove_group"}

\* A message "<action> <op_type> (...)" by its parts.  form "skipped" reads
\* "(count of total aliases <phrase>, skipped skipped)", form "partial"
\* "(count of total aliases <phrase>)", form "full" "(count <noun> <phrase>)";
\* a part the form does not print is 0.
Msg(action, t, form, count, total, skipped, noun, phrase) ==
    [action |-> action, op_type |-> t, form |-> form, count |-> count,
     total |-> total, skipped |-> skipped, noun |-> noun, phrase |-> phrase]
NoMsg == Msg(NoValue, NoValue, "none", 0, 0, 0, NoValue, NoValue)

\* The type-specific phrase of the full form.
FullPhrase(action, t) ==
    CASE t = "remove_group" -> "restored"
      [] t \in {"add", "import"} -> IF action = "Redid" THEN "added" ELSE "removed"
      [] t = "edit" -> IF action = "Redid" THEN "updated" ELSE "restored"
      [] t \in {"group_add", "group_remove", "tag_add", "tag_remove",
                "tag_rename", "tag_delete", "group_import"} -> "processed"
      [] t = "rename" -> IF action = "Redid" THEN "renamed" ELSE "renamed back"
      [] t = "group_delete" -> "reassigned"
      [] OTHER -> IF action = "Redid" THEN "removed" ELSE "restored"

\* _format_message testing count != total before skipped > 0.
FormatMessagePartialFirst(action, t, count, total, skipped) ==
    IF count # total
    THEN Msg(action, t, "partial", count, total, 0, "aliases",
             IF ContainsRemove(t) THEN "restored" ELSE "processed")
    ELSE IF skipped > 0
    THEN Msg(action, t, "skipped", count, total, skipped, "aliases",
             IF ContainsRemove(t) THEN "restored" ELSE "processed")
    ELSE Msg(action, t, "full", count, 0, 0,
             IF count # 1 THEN "aliases" ELSE "alias", FullPhrase(action, t))

\* _format_message without its branch for skipped items.
FormatMessageNoSkipped(action, t, count, total, skipped) ==
    IF count # total
    THEN Msg(action, t, "partial", count, total, 0, "aliases",
             IF ContainsRemove(t) THEN "restored" ELSE "processed")
    ELSE Msg(action, t, "full", count, 0, 0,
             IF count # 1 THEN "aliases" ELSE "alias", FullPhrase(action, t))

\* _format_message(action, op_type, count, total, skipped)
FormatMessage(action, t, count, total, skipped) ==
    IF skipped > 0
    THEN Msg(action, t, "skipped", count, total, skipped, "aliases",
             IF ContainsRemove(t) THEN "restored" ELSE "processed")
    ELSE IF count # total
    THEN Msg(action, t, "partial", count, total, 0, "aliases",
             IF ContainsRemove(t) THEN "restored" ELSE "processed")
    ELSE Msg(action, t, "full", count, 0, 0,
             IF count # 1 THEN "aliases" ELSE "alias", FullPhrase(action, t))

\* ------------------------------------------------------- the dispatcher
\* What a branch of _execute_operation does: the loop ("name": _for_each_name
\* with storage.remove, "alias": _for_each_alias with the lambda `kind`,
\* "none": no branch matches), the batch it runs over, and whether it calls
\* storage.create_backup() before and storage.save() after.
Plan(loop, kind, p, items, backup, save) ==
    [loop |-> loop, kind |-> kind, p |-> p, items |-> items,
     backup |-> backup, save |-> save]

GroupParam(g) == Param(NoValue, NoValue, g, <<>>)
TagsParam(tags) == Param(NoValue, NoValue, NoGroup, tags)
FromTo(from, to) == Param(from, to, NoGroup, <<>>)

PlanOf(op, direction) ==
    LET u == direction = "undo"
        as == op.aliases
    IN
    CASE op.type \in {"add", "import"} ->
            IF u THEN Plan("name", "remove", NoParam, as, FALSE, FALSE)
            ELSE Plan("alias", "add", NoParam, as, FALSE, FALSE)
      [] op.type \in {"remove", "remove_group"} ->
            IF u THEN Plan("alias", "add", NoParam, as, FALSE, FALSE)
            ELSE Plan("name", "remove", NoParam, as, FALSE, FALSE)
      [] op.type = "edit" ->
            IF u THEN Plan("alias", "remove_add", NoParam, as, FALSE, FALSE)
            ELSE Plan("alias", "remove_add", NoParam, op.new_aliases, FALSE, FALSE)
      [] op.type = "rename" ->
            IF u THEN Plan("alias", "rename", FromTo(op.new_name, op.old_name),
                           as, FALSE, FALSE)
            ELSE Plan("alias", "rename", FromTo(op.old_name, op.new_name),
                      as, FALSE, FALSE)
      [] op.type = "group_add" ->
            IF u THEN Plan("alias", "set_group", GroupParam(NoGroup), as, TRUE, TRUE)
            ELSE Plan("alias", "set_group", GroupParam(op.group_name), as, TRUE, TRUE)
      [] op.type = "group_remove" ->
            IF u THEN Plan("alias", "set_group", GroupParam(op.group_name), as, TRUE, TRUE)
            ELSE Plan("alias", "set_group", GroupParam(NoGroup), as, FALSE, TRUE)
      [] op.type = "group_delete" ->
            IF u THEN Plan("alias", "set_group", GroupParam(op.group_name), as, TRUE, TRUE)
            ELSE Plan("alias", "set_group", GroupParam(op.reassign_to), as, FALSE, TRUE)
      [] op.type = "tag_add" ->
            IF u THEN Plan("alias", "remove_tags", TagsParam(op.added_tags), as, TRUE, TRUE)
            ELSE Plan("alias", "add_tags", TagsParam(op.added_tags), as, FALSE, TRUE)
      [] op.type = "tag_remove" ->
            IF u THEN Plan("alias", "add_tags", TagsParam(op.removed_tags), as, TRUE, TRUE)
            ELSE Plan("alias", "remove_tags", TagsParam(op.removed_tags), as, FALSE, TRUE)
      [] op.type = "tag_rename" ->
            IF u THEN Plan("alias", "replace_tag", FromTo(op.new_tag, op.old_tag),
                           as, TRUE, TRUE)
            ELSE Plan("alias", "replace_tag", FromTo(op.old_tag, op.new_tag),
                      as, FALSE, TRUE)
      [] op.type = "tag_delete" ->
            IF u THEN Plan("alias", "add_tags", TagsParam(<<op.deleted_tag>>),
                           as, TRUE, TRUE)
            ELSE Plan("alias", "remove_tags", TagsParam(<<op.deleted_tag>>),
                      as, FALSE, TRUE)
      [] op.type = "group_import" ->
            IF u THEN Plan("alias", "leave_group", GroupParam(op.group_name),
                           as, TRUE, TRUE)
            ELSE Plan("alias", "set_group", GroupParam(op.group_name), as, FALSE, TRUE)
      [] OTHER -> Plan("none", "none", NoParam, <<>>, FALSE, FALSE)

\* The result of _execute_operation: the store after it, the counts and the
\* message, or raised = TRUE when an exception leaves it (there is then no
\* message, and the store keeps what was applied before the exception).
Exec(st, performed, skipped, raised, msg) ==
    [st |-> st, performed |-> performed, skipped |-> skipped,
     raised |-> raised, msg |-> msg]

\* _execute_operation(storage, op, direction)
ExecuteOperation(st, op, direction, F) ==
    LET plan == PlanOf(op, direction)
        action == IF direction = "undo" THEN "Undid" ELSE "Redid"
    IN
    IF plan.backup /\ F.op = "create_backup"
    THEN Exec(st, 0, 0, TRUE, NoMsg)
    ELSE LET t == CASE plan.loop = "name" -> ForEachName(plan.items, st, F)
                    [] plan.loop = "alias" ->
                          ForEachAlias(plan.items, plan.kind, plan.p, st, F)
                    [] OTHER -> Tally(st, 0, 0, FALSE)
         IN
         IF t.raised \/ (plan.save /\ F.op = "save")
         THEN Exec(t.st, t.performed, t.skipped, TRUE, NoMsg)
         ELSE Exec(t.st, t.performed, t.skipped, FALSE,
                   FormatMessage(action, op.type, t.performed,
                                 Len(op.aliases), t.skipped))

\* ------------------------------------------------------ the return values
\* What a public entry point gives its caller.  outcome "returned": kind is
\* "none" (push returns None), "nothing_to_undo", "nothing_to_redo",
\* "invalid_id" (with the id and the upper end of the valid range), "undid"
\* or "redid" (with the dispatcher's message and counts).  outcome "raised":
\* kind is the exception.
Ret(outcome, kind, id, hi, e) ==
    [outcome |-> outcome, kind |-> kind, id |-> id, hi |-> hi,
     msg |-> e.msg, performed |-> e.performed, skipped |-> e.skipped]
NoExec == [msg |-> NoMsg, performed |-> 0, skipped |-> 0]
Returned(kind) == Ret("returned", kind, 0, 0, NoExec)
Raised(kind) == Ret("raised", kind, 0, 0, NoExec)
NothingToUndo == Returned("nothing_to_undo")
NothingToRedo == Returned("nothing_to_redo")
InvalidId(id, hi) == Ret("returned", "invalid_id", id, hi, NoExec)

\* The manager with the store it is given and the journal file: what a call
\* starts from and, with the value it gives its caller, what it ends in.
After(u, r, st, d, ret) ==
    [undo |-> u, redo |-> r, store |-> st, disk |-> d, ret |-> ret]
Unchanged(m, ret) == After(m.undo, m.redo, m.store, m.disk, ret)

\* ------------------------------------------------------ the operation log
\* The journal document: {"undo": [...], "redo": [...]}.
Doc(u, r) == [undo |-> u, redo |-> r]

\* Trim without the trimming.
TrimNothing(s) == s
\* Trim keeping the oldest MAX_HISTORY entries instead of the most recent.
TrimNewest(s) == IF Len(s) <= MAX_HISTORY THEN s ELSE SubSeq(s, 1, MAX_HISTORY)

\* s[-MAX_HISTORY:]
Trim(s) == Tail_n(s, MAX_HISTORY)

\* What the journal path can hold besides a document: no file ("missing");
\* text that is no JSON ("not_json"); a file whose open or read fails with an
\* OSError ("unreadable"); bytes that do not decode as text ("undecodable");
\* brackets nested deeper than the parser's recursion limit ("too_deep");
\* JSON that is no object ("not_object"); the beginning of a document whose
\* write failed after the file was opened ("partial").
File(kind) == [kind |-> kind]
IsDoc(d) == "undo" \in DOMAIN d
\* The kinds load() answers with two empty stacks, and the kinds whose
\* exception is none of the two it catches.
ResetKinds == {"missing", "not_json", "unreadable", "partial"}
RaiseKinds == {"undecodable", "too_deep", "not_object"}

\* save() with a payload that leaves the redo stack out.
SaveUndoOnly(u, r, d, F) ==
    IF F.op = "journal_write" THEN d
    ELSE IF F.op = "journal_dump" THEN File("partial")
    ELSE Doc(Trim(u), <<>>)

\* save() reading the file first and keeping the records it finds there
\* that the stacks do not hold.
SaveMerging(u, r, d, F) ==
    IF F.op = "journal_write" THEN d
    ELSE IF F.op = "journal_dump" THEN File("partial")
    ELSE IF ~IsDoc(d) THEN Doc(Trim(u), Trim(r))
    ELSE Doc(Trim(SelectSeq(d.undo, LAMBDA x : ~InSeq(x, u \o r)) \o u), Trim(r))

\* save(): the document written.  When open() fails the file keeps its
\* content; when json.dump fails after open() truncated the file, the file
\* holds the part written so far.  The OSError is logged and swallowed.
Save(u, r, d, F) ==
    IF F.op = "journal_write" THEN d
    ELSE IF F.op = "journal_dump" THEN File("partial")
    ELSE Doc(Trim(u), Trim(r))

\* save() as an entry point of its own: writes, changes no stack, returns None.
HMSave(m, F) ==
    After(m.undo, m.redo, m.store, Save(m.undo, m.redo, m.disk, F), Returned("none"))

\* load() taking both stacks from the "undo" key.
HMLoadUndoTwice(m) ==
    LET d == m.disk IN
    IF IsDoc(d) THEN After(d.undo, d.undo, m.store, d, Returned("none"))
    ELSE IF d.kind \in ResetKinds
    THEN After(<<>>, <<>>, m.store, d, Returned("none"))
    ELSE Unchanged(m, Raised(d.kind))

\* load(): the stacks are the file's, as they are; both are empty when the
\* file is missing, is no JSON or cannot be read; any other exception leaves
\* load before it assigns.
HMLoad(m) ==
    LET d == m.disk IN
    IF IsDoc(d) THEN After(d.undo, d.redo, m.store, d, Returned("none"))
    ELSE IF d.kind \in ResetKinds
    THEN After(<<>>, <<>>, m.store, d, Returned("none"))
    ELSE Unchanged(m, Raised(d.kind))

\* Validate without the isinstance(op["aliases"], list) check.
ValidateNoListCheck(op) ==
    IF op.type = NoValue \/ op.akind = "missing" THEN "invalid_operation"
    ELSE IF op.type \notin KnownTypes THEN "unknown_type"
    ELSE "ok"

\* push's checks, in the code's order: "ok" or the ValueError raised.
Validate(op) ==
    IF op.type = NoValue \/ op.akind = "missing" THEN "invalid_operation"
    ELSE IF op.type \notin KnownTypes THEN "unknown_type"
    ELSE IF op.akind # "list" THEN "aliases_not_list"
    ELSE "ok"

\* op.setdefault("timestamp", datetime.now().isoformat())
Stamp(op, now) == IF op.timestamp = 0 THEN [op EXCEPT !.timestamp = now] ELSE op

\* push that does not clear redo.
HMPushKeepsRedo(m, op, now, F) ==
    IF Validate(op) # "ok" THEN Unchanged(m, Raised(Validate(op)))
    ELSE LET u == Trim(Append(m.undo, Stamp(op, now))) IN
         After(u, m.redo, m.store, Save(u, m.redo, m.disk, F), Returned("none"))

\* push(op), at a time when datetime.now() reads `now`.
HMPush(m, op, now, F) ==
    IF Validate(op) # "ok" THEN Unchanged(m, Raised(Validate(op)))
    ELSE LET u == Trim(Append(m.undo, Stamp(op, now))) IN
         After(u, <<>>, m.store, Save(u, <<>>, m.disk, F), Returned("none"))

\* The kinds whose lambdas call the store's add or remove.
StoreCallTypes == {"add", "remove", "remove_group", "edit", "import", "rename"}

\* record_history left to the store's default in the add and import branches.
RecordHistoryOnAdd(t) == t \in {"add", "import"}

\* The record_history argument that the lambdas of kind `t` pass to the
\* store's add and remove: False in every call.
RecordHistory(t) == FALSE

\* The two stacks when the dispatcher is back from applying `op`.  The store
\* is the one that calls push, for a change it is asked to record: undo
\* grows by the store's record and redo is cleared.  Asked not to record, it
\* leaves the journal alone.  The store is called for every well-formed item
\* of the batch; one record of the store is modelled, of the type replayed
\* and with the replayed batch.
Journal(u, r, op) ==
    IF /\ RecordHistory(op.type) /\ op.type \in StoreCallTypes
       /\ \E a \in {op.aliases[i] : i \in DOMAIN op.aliases}
                 \cup {op.new_aliases[i] : i \in DOMAIN op.new_aliases} :
              WellFormed(a)
    THEN Doc(Trim(Append(u, Stamp(Op(op.type, op.aliases), 1))), <<>>)
    ELSE Doc(u, r)

\* The replay of `op`, already taken off the stack `rest` it was in: applied in
\* `direction`, then appended to the opposite stack, trimmed, and saved.  An
\* exception that leaves the dispatcher leaves the method before the append.
Replay(m, op, rest, direction, F) ==
    LET e == ExecuteOperation(m.store, op, direction, F)
        j == IF direction = "undo" THEN Journal(rest, m.redo, op)
             ELSE Journal(m.undo, rest, op)
    IN
    IF e.raised
    THEN After(j.undo, j.redo, e.st, m.disk, Raised("exception"))
    ELSE IF direction = "undo"
         THEN LET r == Trim(Append(j.redo, op)) IN
              After(j.undo, r, e.st, Save(j.undo, r, m.disk, F),
                    Ret("returned", "undid", 0, 0, e))
         ELSE LET u == Trim(Append(j.undo, op)) IN
              After(u, j.redo, e.st, Save(u, j.redo, m.disk, F),
                    Ret("returned", "redid", 0, 0, e))

\* perform_undo without the check for an empty stack: list.pop() raises.
HMPerformUndoNoGuard(m, F) ==
    IF m.undo = <<>> THEN Unchanged(m, Raised("IndexError"))
    ELSE Replay(m, Last(m.undo), Front(m.undo), "undo", F)

\* perform_undo reading the most recent record without popping it.
HMPerformUndoNoPop(m, F) ==
    IF m.undo = <<>> THEN Unchanged(m, NothingToUndo)
    ELSE Replay(m, Last(m.undo), m.undo, "undo", F)

\* perform_undo(storage)
HMPerformUndo(m, F) ==
    IF m.undo = <<>> THEN Unchanged(m, NothingToUndo)
    ELSE Replay(m, Last(m.undo), Front(m.undo), "undo", F)

\* perform_redo(storage)
HMPerformRedo(m, F) ==
    IF m.redo = <<>> THEN Unchanged(m, NothingToRedo)
    ELSE Replay(m, Last(m.redo), Front(m.redo), "redo", F)

\* ValidId without the upper end of the range.
ValidIdNoUpper(id, len) == id >= 1

\* operation_id < 1 or operation_id > len(stack) is false
ValidId(id, len) == id >= 1 /\ id <= len

\* OpIndex counting from the oldest entry.
OpIndexFromOldest(len, id) == id - 1

\* op_index = len(stack) - operation_id
OpIndex(len, id) == len - id

\* A Python list index: a negative k counts from the end; -1 is out of range.
PyIndex(len, k) ==
    IF 0 <= k /\ k < len THEN k ELSE IF -len <= k /\ k < 0 THEN k + len ELSE -1

\* The by-id replay on `stack`: the record at op_index is deleted from it
\* and replayed.
ReplayById(m, stack, id, direction, F) ==
    IF ~ValidId(id, Len(stack)) THEN Unchanged(m, InvalidId(id, Len(stack)))
    ELSE LET k == PyIndex(Len(stack), OpIndex(Len(stack), id)) IN
         IF k < 0 THEN Unchanged(m, Raised("IndexError"))
         ELSE Replay(m, stack[k + 1], DelAt(stack, k + 1), direction, F)

\* perform_undo_by_id(storage, operation_id)
HMPerformUndoById(m, id, F) == ReplayById(m, m.undo, id, "undo", F)

\* perform_redo_by_id(storage, operation_id)
HMPerformRedoById(m, id, F) == ReplayById(m, m.redo, id, "redo", F)

\* A list object in the caller's hands: the stack it was taken from ("undo",
\* "redo"; "none" before any was), whether it is the very list object the
\* manager holds as that stack, and its elements, oldest first.
View(of, shared, items) == [of |-> of, shared |-> shared, items |-> items]
NoView == View("none", FALSE, <<>>)

\* list_undo / list_redo returning the stack itself.
HMListShared(m, of) == View(of, TRUE, m[of])

\* list_undo(): list(self.undo); list_redo(): list(self.redo).  A new list
\* object holding the records of the stack in the stack's order.
HMList(m, of) == View(of, FALSE, m[of])

\* ------------------------------------------------------------ the inputs
\* All sequences over S of length at most n.
SeqsUpTo(S, n) == UNION {[1..k -> S] : k \in 0..n}

A1 == Snap("a", "c1", NoGroup, <<>>)
A2 == Snap("a", "c2", NoGroup, <<>>)
B1 == Snap("b", "c1", NoGroup, <<>>)
AG == Snap("a", "c1", "g", <<>>)
AH == Snap("a", "c1", "h", <<>>)
AT == Snap("a", "c1", NoGroup, <<"t">>)
AU == Snap("a", "c1", NoGroup, <<"u">>)
ATU == Snap("a", "c1", NoGroup, <<"t", "u">>)

AddFamilyOps ==
    {Op(t, as) : t \in {"add", "remove", "import", "remove_group"},
                 as \in SeqsUpTo({A1, B1, Malformed, Scalar}, MaxBatch)}
EditOps ==
    {[Op("edit", as) EXCEPT !.new_aliases = ns] :
        as \in {<<A1>>, <<A1, Malformed>>},
        ns \in {<<>>, <<A2>>, <<A2, Malformed>>, <<A2, B1>>}}
RenameOps ==
    {[Op("rename", as) EXCEPT !.old_name = "a", !.new_name = "b"] :
        as \in {<<A1>>, <<B1>>, <<A1, Malformed>>}}
GroupOps ==
    {[Op(t, as) EXCEPT !.group_name = "g"] :
        t \in {"group_add", "group_remove", "group_import"},
        as \in {<<>>, <<A1>>, <<AG>>, <<A1, Malformed>>, <<AG, B1>>}}
GroupDeleteOps ==
    {[Op("group_delete", as) EXCEPT !.group_name = "g", !.reassign_to = g] :
        as \in {<<A1>>, <<AG>>, <<AH>>, <<AG, Malformed>>}, g \in {NoGroup, "h"}}
TagBatches == {<<A1>>, <<AT>>, <<AU>>, <<ATU>>, <<AT, Malformed>>}
TagOps ==
    {[Op("tag_add", as) EXCEPT !.added_tags = ts] :
        as \in TagBatches, ts \in {<<"t">>, <<"t", "u">>}}
    \cup {[Op("tag_remove", as) EXCEPT !.removed_tags = <<"t">>] : as \in TagBatches}
    \cup {[Op("tag_delete", as) EXCEPT !.deleted_tag = "t"] : as \in TagBatches}
    \cup {[Op("tag_rename", as) EXCEPT !.old_tag = "t", !.new_tag = "u"] :
             as \in TagBatches}
\* Records whose caller supplied the timestamp.
StampedOps == {[Op("add", <<A1>>) EXCEPT !.timestamp = 7]}
\* What push rejects: no "type", no "aliases", an unknown type, a value of
\* "aliases" that is no list.
RejectedOps ==
    {Op(NoValue, <<A1>>), [Op("add", <<>>) EXCEPT !.akind = "missing"],
     Op("unknown", <<A1>>), [Op("add", <<>>) EXCEPT !.akind = "scalar"]}

\* The operations pushed under Spec.
Ops ==
    AddFamilyOps \cup EditOps \cup RenameOps \cup GroupOps \cup GroupDeleteOps
    \cup TagOps \cup StampedOps \cup RejectedOps

\* The operations pushed under SpecLog: one accepted shape, stamped by push
\* with the time of the call, and the rejected ones.
LogOps == {Op("add", <<A1>>)} \cup RejectedOps

\* The stores a run starts from: each name absent or holding one alias.
StoreInits ==
    {[n \in Names |-> IF n = "a" THEN x ELSE y] :
        x \in {Absent} \cup {FromDict(a) : a \in {A1, A2, AG, AH, AT, AU, ATU}},
        y \in {Absent, FromDict(B1)}}

\* The operation ids tried by the by-id entry points.
Ids == (-1)..MaxId

\* ------------------------------------------------------------- the state
VARIABLES
    hm,         \* the HistoryManager with the store it is given and the journal
                \* file (undo and redo oldest first, store: name -> alias or
                \* Absent, disk: the document in the file), and what its last
                \* call gave the caller (ret)
    call,       \* the last call of a public entry point: its name and its
                \* operation id (0 when it takes none)
    trip,       \* the round trip under way: push, then undo, then redo
    pushes,     \* accepted pushes so far (counted under SpecLog only)
    replays,    \* state-changing replays so far (counted under SpecLog only)
    view,       \* the list that list_undo or list_redo last handed to the
                \* caller, as the caller holds it now
    other       \* a second HistoryManager constructed on the same journal
                \* path: its stacks and what its last call gave the caller

vars == <<hm, call, trip, pushes, replays, view, other>>

\* HistoryManager.undo, HistoryManager.redo, storage.aliases, the journal
\* file, and the value the last call gave its caller.
undo == hm.undo
redo == hm.redo
store == hm.store
disk == hm.disk
ret == hm.ret

\* The round trip: phase 1 after an accepted push, 2 after the perform_undo
\* that follows it at once, 3 after the perform_redo that follows that; 0
\* otherwise.  fwd is the store as the push found it, op the record pushed.
Trip(phase, fwd, op) == [phase |-> phase, fwd |-> fwd, op |-> op]
NoTrip == Trip(0, [n \in Names |-> Absent], Op(NoValue, <<>>))

Now == hm

Call(name, id) == [name |-> name, id |-> id]

\* No second manager was constructed.
NoOther ==
    After(<<>>, <<>>, [n \in Names |-> Absent], Doc(<<>>, <<>>), Returned("none"))

\* __init__ with no journal file: load() leaves both stacks empty.
InitWith(stores) ==
    /\ \E st \in stores :
          hm = After(<<>>, <<>>, st, Doc(<<>>, <<>>), Returned("none"))
    /\ call = Call("__init__", 0)
    /\ trip = NoTrip
    /\ pushes = 0
    /\ replays = 0
    /\ view = NoView
    /\ other = NoOther

\* The caller pushes `op`; datetime.now() reads `now`.
PushWith(op, now, F, counted) ==
    /\ hm' = HMPush(hm, op, now, F)
    /\ call' = Call("push", 0)
    /\ trip' = IF ret'.outcome = "returned"
               THEN Trip(1, store, Last(undo')) ELSE NoTrip
    /\ pushes' = IF counted /\ ret'.outcome = "returned" THEN pushes + 1 ELSE pushes
    /\ UNCHANGED <<replays, view, other>>
Push(op, now, counted) == PushWith(op, now, NoFail, counted)

\* A replay call was made: counted when it changed a stack.
Replayed(name, id, counted) ==
    /\ call' = Call(name, id)
    /\ replays' = IF counted /\ (undo' # undo \/ redo' # redo)
                  THEN replays + 1 ELSE replays
    /\ UNCHANGED <<pushes, view, other>>

PerformUndo(F, counted) ==
    /\ hm' = HMPerformUndo(hm, F)
    /\ Replayed("perform_undo", 0, counted)
    /\ trip' = IF trip.phase = 1 /\ F = NoFail /\ ret'.kind = "undid"
               THEN [trip EXCEPT !.phase = 2] ELSE NoTrip

PerformRedo(F, counted) ==
    /\ hm' = HMPerformRedo(hm, F)
    /\ Replayed("perform_redo", 0, counted)
    /\ trip' = IF trip.phase = 2 /\ F = NoFail /\ ret'.kind = "redid"
               THEN [trip EXCEPT !.phase = 3] ELSE NoTrip

PerformUndoById(id, F, counted) ==
    /\ hm' = HMPerformUndoById(hm, id, F)
    /\ Replayed("perform_undo_by_id", id, counted)
    /\ trip' = NoTrip

PerformRedoById(id, F, counted) ==
    /\ hm' = HMPerformRedoById(hm, id, F)
    /\ Replayed("perform_redo_by_id", id, counted)
    /\ trip' = NoTrip

\* load(), at a time when the journal path holds `f`: the file is written by
\* save() of this manager or by anyone else (last writer wins, no locking).
Load(f) ==
    /\ hm' = HMLoad([hm EXCEPT !.disk = f])
    /\ call' = Call("load", 0)
    /\ trip' = NoTrip
    /\ UNCHANGED <<pushes, replays, view, other>>

\* save(), called by the caller; the write succeeds or fails as F says.
SaveCall(F) ==
    /\ hm' = HMSave(hm, F)
    /\ call' = Call("save", 0)
    /\ trip' = NoTrip
    /\ UNCHANGED <<pushes, replays, view, other>>

\* ------------------------------------------------- the specifications
\* Spec: the dispatcher.  Every shape of record against every store;
\* MaxJournal records are pushed.
Init == InitWith(StoreInits)

SpecPush == \E op \in Ops : pushes < MaxJournal /\ Push(op, 1, TRUE)
SpecUndo == PerformUndo(NoFail, FALSE)
SpecRedo == PerformRedo(NoFail, FALSE)
SpecUndoById == \E id \in Ids : PerformUndoById(id, NoFail, FALSE)
SpecRedoById == \E id \in Ids : PerformRedoById(id, NoFail, FALSE)

Next ==
    \/ SpecPush
    \/ SpecUndo
    \/ SpecRedo
    \/ SpecUndoById
    \/ SpecRedoById

Spec == Init /\ [][Next]_vars

\* SpecLog: the operation log.  Records of one shape told apart by the time
\* push stamps them with, MaxPush pushes, MaxReplay state-changing replays
\* (a call that changes no stack is always possible).
InitLog == InitWith({[n \in Names |-> Absent]})

LogPush ==
    \E op \in LogOps : pushes < MaxPush /\ Push(op, pushes + 1, TRUE)
LogUndo == PerformUndo(NoFail, TRUE) /\ replays' <= MaxReplay
LogRedo == PerformRedo(NoFail, TRUE) /\ replays' <= MaxReplay
LogUndoById ==
    \E id \in Ids \cup {Len(undo), Len(undo) + 1} :
        PerformUndoById(id, NoFail, TRUE) /\ replays' <= MaxReplay
LogRedoById ==
    \E id \in Ids \cup {Len(redo), Len(redo) + 1} :
        PerformRedoById(id, NoFail, TRUE) /\ replays' <= MaxReplay

NextLog ==
    \/ LogPush
    \/ LogUndo
    \/ LogRedo
    \/ LogUndoById
    \/ LogRedoById

SpecLog == InitLog /\ [][NextLog]_vars

\* SpecExec: the dispatcher on a fresh journal.  The first call after
\* construction pushes a record of any shape, against every store; the
\* record is then replayed by any sequence of the replay entry points.
InitExec == InitWith(StoreInits)

ExecPush == \E op \in Ops : call.name = "__init__" /\ Push(op, 1, FALSE)
ExecUndo == PerformUndo(NoFail, FALSE)
ExecRedo == PerformRedo(NoFail, FALSE)
ExecUndoById == \E id \in Ids : PerformUndoById(id, NoFail, FALSE)
ExecRedoById == \E id \in Ids : PerformRedoById(id, NoFail, FALSE)

NextExec ==
    \/ ExecPush
    \/ ExecUndo
    \/ ExecRedo
    \/ ExecUndoById
    \/ ExecRedoById

SpecExec == InitExec /\ [][NextExec]_vars

\* SpecFile: the journal file.  The manager is constructed on a path that
\* holds any of Files, its writes succeed or fail in either way, and load()
\* reads the path again after it was written by this manager or replaced.
\* MaxFilePush records are pushed.
MaxFilePush == 1
FileOps == {Op("add", <<A1>>), [Op("add", <<>>) EXCEPT !.akind = "scalar"]}
\* A record no push accepts, and a document that holds it.
ForeignRec == Op("unknown", <<A1>>)
ForeignDoc == Doc(<<ForeignRec>>, <<>>)
Files ==
    {File(k) : k \in (ResetKinds \ {"partial"}) \cup RaiseKinds}
    \cup {ForeignDoc,
          Doc(<<Stamp(Op("add", <<A1>>), 1)>>, <<Stamp(Op("remove", <<A1>>), 1)>>)}
FileStores == {st \in StoreInits : st["a"] = FromDict(A1) /\ st["b"] = Absent}
WriteFaults == {NoFail, Fail("journal_write", NoName), Fail("journal_dump", NoName)}

\* __init__ on a path holding f: the stacks start empty and load() runs; the
\* object exists when load() returns.
InitFile ==
    /\ \E f \in Files, st \in FileStores :
          /\ hm = HMLoad(After(<<>>, <<>>, st, f, Returned("none")))
          /\ hm.ret.outcome = "returned"
    /\ call = Call("__init__", 0)
    /\ trip = NoTrip
    /\ pushes = 0
    /\ replays = 0
    /\ view = NoView
    /\ other = NoOther

FilePush == \E op \in FileOps, F \in WriteFaults :
               pushes < MaxFilePush /\ PushWith(op, 1, F, TRUE)
FileUndo == \E F \in WriteFaults : PerformUndo(F, FALSE)
FileRedo == \E F \in WriteFaults : PerformRedo(F, FALSE)
FileUndoById == \E id \in Ids, F \in WriteFaults : PerformUndoById(id, F, FALSE)
FileRedoById == \E id \in Ids, F \in WriteFaults : PerformRedoById(id, F, FALSE)
FileLoad == \E f \in Files \cup {disk} : Load(f)

NextFile ==
    \/ FilePush
    \/ FileUndo
    \/ FileRedo
    \/ FileUndoById
    \/ FileRedoById
    \/ FileLoad

SpecFile == InitFile /\ [][NextFile]_vars

\* SpecView: the stacks as the caller sees them.  MaxViewPush records are
\* pushed and moved between the stacks; list_undo and list_redo hand out a
\* list, and the caller appends to the list it holds or deletes from it.
MaxViewPush == 2

InitView == InitWith(FileStores)

\* list_undo() / list_redo()
ListCall(of) ==
    /\ view' = HMList(hm, of)
    /\ hm' = Unchanged(hm, Returned("list"))
    /\ call' = Call(IF of = "undo" THEN "list_undo" ELSE "list_redo", 0)
    /\ trip' = NoTrip
    /\ UNCHANGED <<pushes, replays, other>>

\* The caller changes the list it holds into `items`.  This is a change of
\* the manager's stack exactly when the list is that stack's list object.
CallerSets(name, items) ==
    /\ view.of # "none"
    /\ view' = [view EXCEPT !.items = items]
    /\ hm' = IF view.shared THEN [hm EXCEPT ![view.of] = items] ELSE hm
    /\ call' = Call(name, 0)
    /\ trip' = NoTrip
    /\ UNCHANGED <<pushes, replays, other>>

ViewPush ==
    pushes < MaxViewPush /\ Push(Op("add", <<A1>>), pushes + 1, TRUE)
ViewUndo == PerformUndo(NoFail, FALSE)
ViewRedo == PerformRedo(NoFail, FALSE)
ViewListUndo == ListCall("undo")
ViewListRedo == ListCall("redo")
\* returned.append(x)
ViewAppend ==
    Len(view.items) <= MaxViewPush
        /\ CallerSets("list.append", Append(view.items, ForeignRec))
\* del returned[i]
ViewDelete ==
    \E i \in DOMAIN view.items :
        CallerSets("list.__delitem__", DelAt(view.items, i))

NextView ==
    \/ ViewPush
    \/ ViewUndo
    \/ ViewRedo
    \/ ViewListUndo
    \/ ViewListRedo
    \/ ViewAppend
    \/ ViewDelete

SpecView == InitView /\ [][NextView]_vars

\* SpecTwo: two managers on one journal path.  Both are constructed while the
\* path holds the same document; each then pushes, undoes and redoes, in any
\* interleaving of whole calls.  Every call reads and writes the one file;
\* neither manager reads it again.  MaxTwoPush records are pushed by each.
MaxTwoPush == 2
TwoFiles == {Doc(<<>>, <<>>), Doc(<<Stamp(Op("remove", <<A1>>), 9)>>, <<>>)}

InitTwo ==
    /\ \E f \in TwoFiles, st \in FileStores :
          /\ hm = HMLoad(After(<<>>, <<>>, st, f, Returned("none")))
          /\ other = hm
    /\ call = Call("__init__", 0)
    /\ trip = NoTrip
    /\ pushes = 0
    /\ replays = 0
    /\ view = NoView

\* The second manager as one of its calls finds it: its own stacks, the
\* store it is given and the file as it is now.
OtherNow == After(other.undo, other.redo, store, disk, other.ret)

\* A call of the second manager was made: the store and the file are what
\* it left; the first manager's stacks are its own.
OtherCalled(name) ==
    /\ hm' = [hm EXCEPT !.store = other'.store, !.disk = other'.disk]
    /\ call' = Call(name, 0)
    /\ trip' = NoTrip
    /\ UNCHANGED <<pushes, replays, view>>

TwoPush == pushes < MaxTwoPush /\ Push(Op("add", <<A1>>), pushes + 1, TRUE)
TwoUndo == PerformUndo(NoFail, FALSE)
TwoRedo == PerformRedo(NoFail, FALSE)
TwoOtherPush ==
    /\ Len(other.undo) < MaxTwoPush
    /\ other' = HMPush(OtherNow, Op("add", <<B1>>), Len(other.undo) + 1, NoFail)
    /\ OtherCalled("other.push")
TwoOtherUndo ==
    /\ other' = HMPerformUndo(OtherNow, NoFail)
    /\ OtherCalled("other.perform_undo")
TwoOtherRedo ==
    /\ other' = HMPerformRedo(OtherNow, NoFail)
    /\ OtherCalled("other.perform_redo")

NextTwo ==
    \/ TwoPush
    \/ TwoUndo
    \/ TwoRedo
    \/ TwoOtherPush
    \/ TwoOtherUndo
    \/ TwoOtherRedo

SpecTwo == InitTwo /\ [][NextTwo]_vars

\* SpecSum: the two stacks filled to capacity.  From no journal file, any
\* number of pushes of one record whose timestamp the caller supplies, so
\* that the stacks are told apart by their lengths only, any number of
\* replays, and load() of the file the manager wrote.
InitSum == InitWith({[n \in Names |-> Absent]})

SumPush == \E op \in StampedOps : Push(op, 1, FALSE)
SumUndo == PerformUndo(NoFail, FALSE)
SumRedo == PerformRedo(NoFail, FALSE)
SumUndoById ==
    \E id \in Ids \cup {Len(undo)} : PerformUndoById(id, NoFail, FALSE)
SumRedoById ==
    \E id \in Ids \cup {Len(redo)} : PerformRedoById(id, NoFail, FALSE)
SumLoad == Load(disk)

NextSum ==
    \/ SumPush
    \/ SumUndo
    \/ SumRedo
    \/ SumUndoById
    \/ SumRedoById
    \/ SumLoad

SpecSum == InitSum /\ [][NextSum]_vars

\* SpecRound: the journal written and read back.  The manager is constructed
\* on no file or on a document whose stacks are longer than the capacity
\* (load() takes the stacks as the file has them); it pushes, undoes,
\* redoes, saves, and loads the file again.  MaxRoundPush records are pushed.
MaxRoundPush == 1
\* MAX_HISTORY + 1 records, told apart by their timestamps 1, 2, ...
LongStack == [i \in 1..(MAX_HISTORY + 1) |-> Stamp(Op("add", <<A1>>), i)]
RoundFiles ==
    {File("missing"), Doc(LongStack, <<>>), Doc(<<LongStack[1]>>, LongStack)}

InitRound ==
    /\ \E f \in RoundFiles, st \in FileStores :
          hm = HMLoad(After(<<>>, <<>>, st, f, Returned("none")))
    /\ call = Call("__init__", 0)
    /\ trip = NoTrip
    /\ pushes = 0
    /\ replays = 0
    /\ view = NoView
    /\ other = NoOther

RoundPush ==
    pushes < MaxRoundPush
        /\ Push(Op("add", <<A1>>), MAX_HISTORY + 2 + pushes, TRUE)
RoundUndo == PerformUndo(NoFail, FALSE)
RoundRedo == PerformRedo(NoFail, FALSE)
RoundSave == SaveCall(NoFail)
RoundLoad == Load(disk)

NextRound ==
    \/ RoundPush
    \/ RoundUndo
    \/ RoundRedo
    \/ RoundSave
    \/ RoundLoad

SpecRound == InitRound /\ [][NextRound]_vars

\* --------------------------------------------------------------- claims
\* A step of the entry point `name`.
Calls(name) == call'.name = name
\* The manager's stacks, the store and the journal file are as before.
NoEffect == UNCHANGED <<undo, redo, store, disk>>
ValueErrors == {"invalid_operation", "unknown_type", "aliases_not_list"}

C2_PushClearsRedo ==
    (call.name = "push" /\ ret.outcome = "returned") =>
        /\ redo = <<>>
        /\ \A F \in FailModes :
              HMPerformRedo(Now, F) =
                  After(undo, redo, store, disk, Returned("nothing_to_redo"))
\* A push that returned, before the capacity was reached, with a pushed record
\* that is no longer in undo: it had been undone, and the push dropped it.
C2_Witness ==
    /\ call.name = "push" /\ ret.outcome = "returned"
    /\ pushes <= 20 /\ Len(undo) < pushes /\ redo = <<>>

\* C3: a push that returns makes the record the most recent entry of undo;
\* the entries before it are the previous undo, less its oldest entry when it
\* already held 20.
C3_PushAppends ==
    [][(Calls("push") /\ ret'.outcome = "returned") =>
          /\ undo' # <<>>
          /\ Last(undo') = [Op("add", <<A1>>) EXCEPT !.timestamp = pushes']
          /\ Front(undo') = IF Len(undo) = 20 THEN SubSeq(undo, 2, 20) ELSE undo]_vars
\* The 21st push on a full undo: the record stamped 1 is gone, 2..21 remain.
C3_Witness ==
    /\ call.name = "push" /\ pushes = 21 /\ Len(undo) = 20
    /\ undo[1].timestamp = 2 /\ undo[20].timestamp = 21

\* C4: a push of an operation with no type, no aliases, an unknown type or a
\* value of aliases that is no list raises an invalid-operation error and
\* leaves undo, redo, the store and the journal file as they were.
C4_RejectedPush ==
    \A op \in RejectedOps, F \in {NoFail, Fail("journal_write", NoName)} :
        LET a == HMPush(Now, op, pushes + 1, F) IN
        /\ a.ret.outcome = "raised" /\ a.ret.kind \in ValueErrors
        /\ a.undo = undo /\ a.redo = redo /\ a.store = store /\ a.disk = disk
\* A push rejected for its aliases, made while both stacks hold records.
C4_Witness ==
    /\ call.name = "push" /\ ret.kind = "aliases_not_list"
    /\ undo # <<>> /\ redo # <<>>

\* C5: perform_undo on a non-empty undo removes the most recent record from
\* undo, keeps the others in order, and appends that record as the most
\* recent entry of redo, trimmed to its 20 most recent entries.
C5_UndoMovesTop ==
    [][(Calls("perform_undo") /\ undo # <<>>) =>
          /\ undo' = Front(undo)
          /\ redo' = Tail_n(Append(redo, Last(undo)), 20)]_vars

\* The forward action of `op` applied to the alias of one of its snapshots.
Forward(op, alias) ==
    CASE op.type = "rename" -> [alias EXCEPT !.name = op.new_name]
      [] op.type \in {"group_add", "group_import"} ->
            [alias EXCEPT !.group = op.group_name]
      [] op.type = "group_remove" -> [alias EXCEPT !.group = NoGroup]
      [] op.type = "group_delete" -> [alias EXCEPT !.group = op.reassign_to]
      [] op.type = "tag_add" -> [alias EXCEPT !.tags = AddTags(@, op.added_tags)]
      [] op.type = "tag_remove" ->
            [alias EXCEPT !.tags = RemoveTags(@, op.removed_tags)]
      [] op.type = "tag_delete" ->
            [alias EXCEPT !.tags = RemoveTags(@, <<op.deleted_tag>>)]
      [] op.type = "tag_rename" ->
            [alias EXCEPT !.tags = ReplaceTag(@, op.old_tag, op.new_tag)]
      [] OTHER -> alias

\* `op` is a valid record (well-formed snapshots of distinct names, an edit
\* that keeps the names) and `st` is the store its forward action produces.
ForwardApplied(op, st) ==
    LET as == IF op.type = "edit" THEN op.new_aliases ELSE op.aliases IN
    /\ Len(as) = Len(op.aliases)
    /\ \A i \in 1..Len(as) : WellFormed(as[i]) /\ as[i].name = op.aliases[i].name
    /\ \A i, j \in 1..Len(as) : as[i].name = as[j].name => i = j
    /\ \A i \in 1..Len(as) :
          IF op.type \in {"remove", "remove_group"}
          THEN st[as[i].name] = Absent
          ELSE LET x == Forward(op, FromDict(as[i])) IN
               /\ st[x.name] = x
               /\ (op.type = "rename" /\ op.old_name # op.new_name)
                     => st[op.old_name] = Absent

\* C6: round trip: for a valid record of any kind pushed on the store its
\* forward action produced, push, perform_undo, perform_redo leave the store
\* in that same state.
C6_RoundTrip ==
    (trip.phase = 3 /\ ForwardApplied(trip.op, trip.fwd)) => store = trip.fwd

\* C7: perform_undo on an empty undo returns the nothing-to-undo message and
\* changes neither stack, nor the store, nor the journal file; perform_redo on
\* an empty redo likewise with the nothing-to-redo message.
C7_EmptyStack ==
    [][/\ (Calls("perform_undo") /\ undo = <<>>) =>
              (ret' = Returned("nothing_to_undo") /\ NoEffect)
       /\ (Calls("perform_redo") /\ redo = <<>>) =>
              (ret' = Returned("nothing_to_redo") /\ NoEffect)]_vars
\* perform_undo answered nothing-to-undo while redo holds records, and the
\* journal file still holds them.
C7_Witness ==
    /\ call.name = "perform_undo" /\ ret.kind = "nothing_to_undo"
    /\ undo = <<>> /\ redo # <<>> /\ disk = Doc(undo, redo)

\* C8: a by-id call with an id below 1 or above the length of its stack
\* returns the invalid-id message and changes neither stack, nor the store,
\* nor the journal file.
C8_InvalidId ==
    [][/\ (Calls("perform_undo_by_id") /\ (call'.id < 1 \/ call'.id > Len(undo))) =>
              /\ ret'.outcome = "returned" /\ ret'.kind = "invalid_id"
              /\ NoEffect
       /\ (Calls("perform_redo_by_id") /\ (call'.id < 1 \/ call'.id > Len(redo))) =>
              /\ ret'.outcome = "returned" /\ ret'.kind = "invalid_id"
              /\ NoEffect]_vars
\* perform_undo_by_id refused an id one above the length of a non-empty undo.
C8_Witness ==
    /\ call.name = "perform_undo_by_id" /\ ret.kind = "invalid_id"
    /\ undo # <<>> /\ call.id = Len(undo) + 1

\* C9: a by-id call with a valid id k removes the record at chronological
\* index len - k from its stack, keeps the others in order, leaves the
\* records of the opposite stack and appends the removed record to it.
C9_ByIdMovesRecord ==
    [][/\ (Calls("perform_undo_by_id") /\ 1 <= call'.id /\ call'.id <= Len(undo)) =>
              /\ undo' = DelAt(undo, Len(undo) - call'.id + 1)
              /\ redo' = Append(redo, undo[Len(undo) - call'.id + 1])
       /\ (Calls("perform_redo_by_id") /\ 1 <= call'.id /\ call'.id <= Len(redo)) =>
              /\ redo' = DelAt(redo, Len(redo) - call'.id + 1)
              /\ undo' = Append(undo, redo[Len(redo) - call'.id + 1])]_vars

\* C10: on a non-empty stack the by-id call with id 1 ends in the same
\* stacks, store, journal file and return value as the plain call.
C10_IdOneIsTop ==
    \A F \in FailModes :
        /\ undo # <<>> => HMPerformUndoById(Now, 1, F) = HMPerformUndo(Now, F)
        /\ redo # <<>> => HMPerformRedoById(Now, 1, F) = HMPerformRedo(Now, F)
\* perform_undo_by_id(1) undid the most recent of at least two records.
C10_Witness ==
    /\ call.name = "perform_undo_by_id" /\ call.id = 1 /\ ret.kind = "undid"
    /\ undo # <<>> /\ redo # <<>> /\ Last(redo).timestamp > Last(undo).timestamp

\* The record the last call replayed, when it returned: it is the most recent
\* entry of the stack it was appended to.
ReplayedRec == IF ret.kind = "undid" THEN Last(redo) ELSE Last(undo)
HasReplayed == ret.outcome = "returned" /\ ret.kind \in {"undid", "redid"}
AllWellFormed(as) == \A i \in 1..Len(as) : WellFormed(as[i])

\* C11: for an add or import record with well-formed snapshots, after its
\* undo no name of the batch is in the store and after its redo every name of
\* the batch is in the store with the snapshot's fields; for a remove or
\* remove_group record the directions are exchanged.  The message reads
\* "Undid <type> ..." after an undo and "Redid <type> ..." after a redo.
C11_AddRemove ==
    (/\ HasReplayed
     /\ ReplayedRec.type \in {"add", "import", "remove", "remove_group"}
     /\ AllWellFormed(ReplayedRec.aliases)) =>
        LET rec == ReplayedRec
            removes == (ret.kind = "undid") = (rec.type \in {"add", "import"})
        IN
        /\ ret.msg.action = (IF ret.kind = "undid" THEN "Undid" ELSE "Redid")
        /\ ret.msg.op_type = rec.type
        /\ \A i \in 1..Len(rec.aliases) :
              store[rec.aliases[i].name] =
                  IF removes THEN Absent ELSE FromDict(rec.aliases[i])
\* An add record of two aliases was undone on a store that held both.
C11_Witness ==
    /\ call.name = "perform_undo" /\ ret.kind = "undid" /\ ret.performed = 2
    /\ Last(redo).type = "add" /\ Last(redo).aliases = <<A1, B1>>
    /\ store["a"] = Absent /\ store["b"] = Absent

\* C12: for a rename record with old_name different from new_name and one
\* well-formed snapshot, after its undo the store holds old_name and not
\* new_name, and after its redo it holds new_name and not old_name.
C12_Rename ==
    (/\ HasReplayed
     /\ ReplayedRec.type = "rename"
     /\ ReplayedRec.old_name # ReplayedRec.new_name
     /\ Len(ReplayedRec.aliases) = 1 /\ AllWellFormed(ReplayedRec.aliases)) =>
        LET rec == ReplayedRec
            to == IF ret.kind = "undid" THEN rec.old_name ELSE rec.new_name
            from == IF ret.kind = "undid" THEN rec.new_name ELSE rec.old_name
        IN
        /\ store[to] = [FromDict(rec.aliases[1]) EXCEPT !.name = to]
        /\ store[from] = Absent
\* A rename of a to b was undone and redone: the store holds b and not a.
C12_Witness ==
    /\ call.name = "perform_redo" /\ ret.kind = "redid" /\ trip.phase = 3
    /\ Last(undo).type = "rename" /\ Last(undo).aliases = <<A1>>
    /\ Last(undo).old_name = "a" /\ Last(undo).new_name = "b"
    /\ store["b"] # Absent /\ store["a"] = Absent

\* The items of a batch that are no well-formed snapshot.
Malformeds(as) == {i \in 1..Len(as) : ~WellFormed(as[i])}

\* The replay of the add-family record `rec` in direction `undoing` is best
\* effort: every well-formed item is applied to the store and every other item
\* is one skip.
BestEffort(rec, undoing) ==
    LET removes == undoing = (rec.type \in {"add", "import"}) IN
    /\ ret'.outcome = "returned"
    /\ ret'.skipped = Cardinality(Malformeds(rec.aliases))
    /\ \A i \in 1..Len(rec.aliases) :
          WellFormed(rec.aliases[i]) =>
              store'[rec.aliases[i].name] =
                  IF removes THEN Absent ELSE FromDict(rec.aliases[i])

\* C13: best-effort batch apply: during the replay of a record, a malformed
\* item is counted as one skip and does not stop the batch; every well-formed
\* item, before or after it, is still applied to the store.
C13_BestEffort ==
    [][/\ (/\ Calls("perform_undo") /\ undo # <<>>
           /\ Last(undo).type \in {"add", "import", "remove", "remove_group"})
              => BestEffort(Last(undo), TRUE)
       /\ (/\ Calls("perform_redo") /\ redo # <<>>
           /\ Last(redo).type \in {"add", "import", "remove", "remove_group"})
              => BestEffort(Last(redo), FALSE)]_vars

\* A batch of one well-formed snapshot and one snapshot without a name.
OneGoodOneBad(as) ==
    /\ Len(as) = 2
    /\ \E i, j \in 1..2 : WellFormed(as[i]) /\ as[j] = Malformed
\* The well-formed snapshot of such a batch.
Good(as) == IF WellFormed(as[1]) THEN as[1] ELSE as[2]
\* The batch the replay of `rec` runs over: new_aliases when an edit is redone.
BatchOf(rec, undoing) ==
    IF rec.type = "edit" /\ ~undoing THEN rec.new_aliases ELSE rec.aliases
\* The item lambda reports success on the well-formed snapshot `g`: a removal
\* finds the name in the store, a tag rename finds the tag in the snapshot.
Succeeds(rec, undoing, g, st) ==
    IF undoing = (rec.type \in {"add", "import"})
       /\ rec.type \in {"add", "import", "remove", "remove_group"}
    THEN st[g.name] # Absent
    ELSE IF rec.type = "tag_rename"
    THEN InSeq(IF undoing THEN rec.new_tag ELSE rec.old_tag, g.tags)
    ELSE TRUE

OneSkipped(rec, undoing) ==
    OneGoodOneBad(BatchOf(rec, undoing)) =>
        /\ ret'.outcome = "returned"
        /\ ret'.skipped = 1
        /\ ret'.msg.form = "skipped" /\ ret'.msg.skipped = 1
        /\ ret'.performed =
              IF Succeeds(rec, undoing, Good(BatchOf(rec, undoing)), store)
              THEN 1 ELSE 0
        /\ ret'.msg.count = ret'.performed

ReplayCalls == {"perform_undo", "perform_redo",
                "perform_undo_by_id", "perform_redo_by_id"}

\* C15: perform_undo, perform_redo and the by-id variants always return a
\* message and never raise, for every record push accepts and for a store
\* whose operations may raise.
C15_ReplayNeverRaises ==
    [][call'.name \in ReplayCalls => ret'.outcome = "returned"]_vars

\* How many times `r` occurs in the sequence `s`.
Occurrences(r, s) == Cardinality({i \in DOMAIN s : s[i] = r})
\* The records of `s` and `t`, each as many times as it occurs.
SameRecords(s, t) ==
    \A r \in {s[i] : i \in DOMAIN s} \cup {t[i] : i \in DOMAIN t} :
        Occurrences(r, s) = Occurrences(r, t)

\* C20: no perform_undo, perform_redo or by-id call leaves a record in
\* neither stack or in both: the records of the two stacks together are the
\* same before and after the call, also when applying the record fails.
C20_RecordInOneStack ==
    [][call'.name \in ReplayCalls =>
          SameRecords(undo' \o redo', undo \o redo)]_vars

\* The kinds of file that are no valid JSON.
NotJsonKinds == {"not_json", "undecodable", "too_deep", "partial"}

\* C16: load() leaves both stacks empty and does not raise when the journal
\* file does not exist, when it is not valid JSON, and when reading it fails
\* with an I/O error.
C16_LoadResets ==
    [][(Calls("load") /\ ~IsDoc(disk')
           /\ disk'.kind \in {"missing", "unreadable"} \cup NotJsonKinds) =>
          (ret'.outcome = "returned" /\ undo' = <<>> /\ redo' = <<>>)]_vars

\* What the call that took the manager from `m` to `a` did to the journal
\* file: a call that returned after changing the stacks wrote both stacks as
\* they are in memory; a call that changed nothing did not write.
Persisted(m, a) ==
    /\ (a.ret.outcome = "returned" /\ a.ret.kind \in {"none", "undid", "redid"})
          => a.disk = Doc(a.undo, a.redo)
    /\ ((a.ret.outcome = "raised" /\ a.ret.kind \in ValueErrors)
        \/ (a.ret.outcome = "returned" /\ a.ret.kind \in
               {"nothing_to_undo", "nothing_to_redo", "invalid_id"}))
          => a.disk = m.disk /\ a.undo = m.undo /\ a.redo = m.redo

WriteSwallowed(m, a, b) ==
    /\ a.ret = b.ret /\ a.undo = b.undo /\ a.redo = b.redo
    /\ a.disk = m.disk

\* C18: when writing the journal fails with an I/O error, push, perform_undo,
\* perform_redo and the by-id variants do not raise because of it and make
\* their full change to undo and redo; the file keeps its previous content.
C18_WriteFailure ==
    \A F \in WriteFaults \ {NoFail} :
        /\ \A op \in FileOps :
              WriteSwallowed(hm, HMPush(hm, op, 1, F), HMPush(hm, op, 1, NoFail))
        /\ WriteSwallowed(hm, HMPerformUndo(hm, F), HMPerformUndo(hm, NoFail))
        /\ WriteSwallowed(hm, HMPerformRedo(hm, F), HMPerformRedo(hm, NoFail))
        /\ \A id \in Ids :
              /\ WriteSwallowed(hm, HMPerformUndoById(hm, id, F),
                                HMPerformUndoById(hm, id, NoFail))
              /\ WriteSwallowed(hm, HMPerformRedoById(hm, id, F),
                                HMPerformRedoById(hm, id, NoFail))

\* C19: in every reachable state every record in undo and in redo has a type
\* from the known set and a list as aliases.
C19_RecordsValid ==
    \A r \in {undo[i] : i \in DOMAIN undo} \cup {redo[i] : i \in DOMAIN redo} :
        r.type \in KnownTypes /\ r.akind = "list"

\* The group_* and tag_* operation kinds.
GroupTagTypes ==
    {"group_add", "group_remove", "group_delete", "group_import",
     "tag_add", "tag_remove", "tag_rename", "tag_delete"}

\* The dispatcher, applying `op` to `st`, calls create_backup before its
\* first change and save after its last: with a create_backup that raises it
\* raises with the store untouched, and with a save that raises it raises
\* with every change made.
Bracketed(st, op, direction) ==
    LET b == ExecuteOperation(st, op, direction, Fail("create_backup", NoName))
        s == ExecuteOperation(st, op, direction, Fail("save", NoName))
        n == ExecuteOperation(st, op, direction, NoFail)
    IN  /\ b.raised /\ b.st = st
        /\ s.raised /\ s.st = n.st

\* C21: for every group_* and tag_* kind and both directions the dispatcher
\* calls the store's create_backup before its first change to the alias
\* mapping and the store's save after its last.
C21_BackupThenSave ==
    [][/\ (Calls("perform_undo") /\ undo # <<>>
              /\ Last(undo).type \in GroupTagTypes) =>
          Bracketed(store, Last(undo), "undo")
       /\ (Calls("perform_redo") /\ redo # <<>>
              /\ Last(redo).type \in GroupTagTypes) =>
          Bracketed(store, Last(redo), "redo")]_vars

RECURSIVE UndoAll(_, _)
UndoAll(m, k) == IF k = 0 THEN m ELSE UndoAll(HMPerformUndo(m, NoFail), k - 1)
RECURSIVE RedoAll(_, _)
RedoAll(m, k) == IF k = 0 THEN m ELSE RedoAll(HMPerformRedo(m, NoFail), k - 1)
Reverse(s) == [i \in 1..Len(s) |-> s[Len(s) + 1 - i]]

\* After the pushes that left n records in undo, n perform_undo calls take
\* them most recent first and leave undo empty, n perform_redo calls bring
\* them back in the order pushed with redo empty, and one call more in
\* either direction returns the empty-stack message.
UndoAllRedoAll(m) ==
    LET n == Len(m.undo)
        a == UndoAll(m, n)
        b == RedoAll(a, n)
    IN  /\ a.undo = <<>> /\ a.redo = Reverse(m.undo)
        /\ n > 0 => a.ret.kind = "undid"
        /\ HMPerformUndo(a, NoFail).ret = NothingToUndo
        /\ b.undo = m.undo /\ b.redo = <<>>
        /\ n > 0 => b.ret.kind = "redid"
        /\ HMPerformRedo(b, NoFail).ret = NothingToRedo

\* C23: after n pushes (n <= 20), n successive perform_undo calls reverse
\* the operations most recent first and leave undo empty; n perform_redo
\* calls then re-apply them in the original order and leave undo as it was
\* and redo empty; one further call returns the empty-stack message.
C23_UndoAllRedoAll ==
    (call.name = "push" /\ ret.outcome = "returned" /\ Len(undo) <= MAX_HISTORY)
        => UndoAllRedoAll(hm)

GroupTypes == {"group_add", "group_remove", "group_delete", "group_import"}
TagTypes == {"tag_add", "tag_remove", "tag_rename", "tag_delete"}

\* The replay of the group or tag record `rec` left the fields it does not
\* target as the store had them: for every well-formed snapshot of the batch
\* whose alias the store held, the command, and the tags (group record) or
\* the group (tag record), are those of the store before the replay.
KeepsOtherFields(rec) ==
    \A i \in DOMAIN rec.aliases :
        LET a == rec.aliases[i] IN
        (WellFormed(a) /\ store[a.name] # Absent) =>
            /\ store'[a.name].command = store[a.name].command
            /\ rec.type \in GroupTypes => store'[a.name].tags = store[a.name].tags
            /\ rec.type \in TagTypes => store'[a.name].group = store[a.name].group

\* C24: replay of a group_* or tag_* record re-reads each alias from the live
\* store and changes only the targeted field; the other fields keep the
\* values they had in the store just before the replay, even when they
\* differ from the recorded snapshot.
C24_OnlyTargetedField ==
    [][/\ (Calls("perform_undo") /\ undo # <<>> /\ ret'.outcome = "returned"
              /\ Last(undo).type \in GroupTagTypes) => KeepsOtherFields(Last(undo))
       /\ (Calls("perform_redo") /\ redo # <<>> /\ ret'.outcome = "returned"
              /\ Last(redo).type \in GroupTagTypes) => KeepsOtherFields(Last(redo))]_vars

\* The replay of the tag_rename record `rec` replaced `from` by `to` in the
\* store: an alias of the batch that carried `from` in the store carries `to`
\* and no `from`; one that did not carry it is as it was.
RenamedInStore(rec, from, to) ==
    \A i \in DOMAIN rec.aliases :
        LET a == rec.aliases[i] IN
        (WellFormed(a) /\ store[a.name] # Absent) =>
            IF InSeq(from, store[a.name].tags)
            THEN InSeq(to, store'[a.name].tags) /\ ~InSeq(from, store'[a.name].tags)
            ELSE store'[a.name] = store[a.name]

\* C25: undo of a tag_rename record gives every alias of the batch that
\* carries new_tag in the store old_tag in its place and leaves an alias
\* that does not carry new_tag in the store unchanged; redo is the same with
\* old_tag and new_tag exchanged.
C25_TagRename ==
    [][/\ (Calls("perform_undo") /\ undo # <<>> /\ ret'.outcome = "returned"
              /\ Last(undo).type = "tag_rename") =>
          RenamedInStore(Last(undo), Last(undo).new_tag, Last(undo).old_tag)
       /\ (Calls("perform_redo") /\ redo # <<>> /\ ret'.outcome = "returned"
              /\ Last(redo).type = "tag_rename") =>
          RenamedInStore(Last(redo), Last(redo).old_tag, Last(redo).new_tag)]_vars

\* C26: for a group_delete record with well-formed snapshots, after its undo
\* every alias of the batch has the record's group_name as group, and after
\* its redo the record's reassign_to, which is no group when reassign_to is
\* absent or null.
C26_GroupDelete ==
    (/\ HasReplayed
     /\ ReplayedRec.type = "group_delete"
     /\ AllWellFormed(ReplayedRec.aliases)) =>
        \A i \in 1..Len(ReplayedRec.aliases) :
            store[ReplayedRec.aliases[i].name].group =
                IF ret.kind = "undid" THEN ReplayedRec.group_name
                ELSE ReplayedRec.reassign_to
\* A group_delete record whose snapshot is in group g was redone with
\* reassign_to h: the alias is in h.
C26_Witness ==
    /\ call.name = "perform_redo" /\ ret.kind = "redid" /\ ret.performed = 1
    /\ Last(undo).type = "group_delete" /\ Last(undo).aliases = <<AG>>
    /\ Last(undo).reassign_to = "h" /\ store["a"].group = "h"

\* The names of the well-formed snapshots of a batch.
NamesOf(as) == {as[i].name : i \in {k \in 1..Len(as) : WellFormed(as[k])}}

\* C27: for an edit record, after its undo the store holds an alias with the
\* fields of every well-formed snapshot of aliases, and no alias that only
\* the edited version introduced; after its redo it holds an alias with the
\* fields of every well-formed snapshot of new_aliases.
C27_Edit ==
    (HasReplayed /\ ReplayedRec.type = "edit") =>
        LET rec == ReplayedRec
            as == IF ret.kind = "undid" THEN rec.aliases ELSE rec.new_aliases
        IN
        /\ \A i \in 1..Len(as) :
              WellFormed(as[i]) => store[as[i].name] = FromDict(as[i])
        /\ ret.kind = "undid" =>
              \A n \in NamesOf(rec.new_aliases) \ NamesOf(rec.aliases) :
                  store[n] = Absent

\* Applying `rec` to `st` in `direction` twice gives the store that applying
\* it once gives.
Idempotent(st, rec, direction) ==
    LET once == ExecuteOperation(st, rec, direction, NoFail) IN
    ExecuteOperation(once.st, rec, direction, NoFail).st = once.st

\* C28: applying the undo action of the same tag_add, tag_delete, tag_rename
\* or group_import record to the store twice in a row leaves the store as
\* applying it once does; the same holds for the redo action.
C28_Idempotent ==
    \A rec \in {undo[i] : i \in DOMAIN undo} \cup {redo[i] : i \in DOMAIN redo} :
        rec.type \in {"tag_add", "tag_delete", "tag_rename", "group_import"} =>
            Idempotent(store, rec, "undo") /\ Idempotent(store, rec, "redo")
\* A tag_add record was undone and took the tag t off the alias; its undo
\* action applied once more leaves the store as it is.
C28_Witness ==
    /\ call.name = "perform_undo" /\ ret.kind = "undid" /\ ret.performed = 1
    /\ Last(redo).type = "tag_add" /\ Last(redo).aliases = <<AT>>
    /\ store["a"].tags = <<>>
    /\ ExecuteOperation(store, Last(redo), "undo", NoFail).st = store

\* The tags of a sequence, as a set.
TagSet(ts) == {ts[i] : i \in DOMAIN ts}

\* The replay of the tag_add record `rec` added (redo) or removed (undo) the
\* record's added_tags on every alias of the batch that the store held, kept
\* the alias's other tags, and left no tag twice in a list.
TagsAdded(rec, undoing) ==
    \A i \in DOMAIN rec.aliases :
        LET a == rec.aliases[i]
            before == store[a.name].tags
            after == store'[a.name].tags
        IN
        (WellFormed(a) /\ store[a.name] # Absent) =>
            /\ \A t \in TagSet(rec.added_tags) :
                  Occurrences(t, after) = (IF undoing THEN 0 ELSE 1)
            /\ \A x \in TagSet(before) \ TagSet(rec.added_tags) : InSeq(x, after)
            /\ \A x \in TagSet(after) : Occurrences(x, after) = 1

\* C29: after redo of a tag_add record every tag of added_tags is in the
\* alias's tag list exactly once and the alias's other tags are kept; after
\* its undo no tag of added_tags is in the list and the other tags are kept;
\* the replay creates no duplicate tag.
C29_TagAdd ==
    [][/\ (Calls("perform_undo") /\ undo # <<>> /\ ret'.outcome = "returned"
              /\ Last(undo).type = "tag_add") => TagsAdded(Last(undo), TRUE)
       /\ (Calls("perform_redo") /\ redo # <<>> /\ ret'.outcome = "returned"
              /\ Last(redo).type = "tag_add") => TagsAdded(Last(redo), FALSE)]_vars

\* C30: the result message starts with the action verb and the operation
\* type; with skipped > 0 it states "performed of total" and the skip count;
\* otherwise, with performed different from total, "performed of total" and
\* no skip count; otherwise the type-specific phrase, with the singular noun
\* when the count is 1 and the plural noun otherwise.
C30_MessageForm ==
    HasReplayed =>
        LET m == ret.msg
            total == Len(ReplayedRec.aliases)
        IN
        /\ m.action = (IF ret.kind = "undid" THEN "Undid" ELSE "Redid")
        /\ m.op_type = ReplayedRec.type
        /\ m.count = ret.performed
        /\ IF ret.skipped > 0
           THEN m.form = "skipped" /\ m.total = total /\ m.skipped = ret.skipped
           ELSE IF ret.performed # total
           THEN m.form = "partial" /\ m.total = total /\ m.skipped = 0
           ELSE /\ m.form = "full"
                /\ m.phrase = FullPhrase(m.action, m.op_type)
                /\ m.noun = (IF ret.performed = 1 THEN "alias" ELSE "aliases")
\* An add record of one alias was undone on a store without it: nothing
\* skipped, 0 of 1 performed, and the message has the "0 of 1" form.
C30_Witness ==
    /\ call.name = "perform_undo" /\ ret.kind = "undid"
    /\ Len(Last(redo).aliases) = 1
    /\ ret.skipped = 0 /\ ret.performed = 0 /\ ret.msg.form = "partial"

\* The phrase of the full form as stated: "added" / "removed" for add and
\* import, "renamed" / "renamed back" for rename, "reassigned" for
\* group_delete, "removed" / "restored" for every other type.
StatedPhrase(redone, t) ==
    CASE t \in {"add", "import"} -> IF redone THEN "added" ELSE "removed"
      [] t = "rename" -> IF redone THEN "renamed" ELSE "renamed back"
      [] t = "group_delete" -> "reassigned"
      [] OTHER -> IF redone THEN "removed" ELSE "restored"

\* C31: for a replay with no skip and performed equal to total, the phrase
\* of the message is "added" (redo) / "removed" (undo) for add and import,
\* "renamed" / "renamed back" for rename, "reassigned" for group_delete, and
\* "removed" (redo) / "restored" (undo) for every other operation type.
C31_Phrase ==
    (HasReplayed /\ ret.skipped = 0
        /\ ret.performed = Len(ReplayedRec.aliases)) =>
        ret.msg.phrase = StatedPhrase(ret.kind = "redid", ReplayedRec.type)

\* C32: list_undo and list_redo return the records of their stack, oldest
\* first and the most recent last; they change neither stack nor the journal
\* file; and the list returned is a copy: appending to it or deleting from
\* it leaves the manager's stacks as they are.
C32_ListIsCopy ==
    [][/\ Calls("list_undo") => (view'.items = undo /\ NoEffect)
       /\ Calls("list_redo") => (view'.items = redo /\ NoEffect)
       /\ call'.name \in {"list.append", "list.__delitem__"} =>
             (view'.items # view.items /\ NoEffect)]_vars
\* The caller deleted the older of the two records from the list that
\* list_undo returned, and the undo stack still holds both.
C32_Witness ==
    /\ call.name = "list.__delitem__" /\ view.of = "undo"
    /\ Len(undo) = 2 /\ view.items = <<undo[2]>>
    /\ undo[1].timestamp < undo[2].timestamp

\* C33: load() completes without raising for every content of the journal
\* file, also for a document that is valid JSON but no object and for one
\* whose undo or redo value is no list, so that a corrupt journal never
\* blocks the construction of the manager.
C33_LoadNeverRaises == [][Calls("load") => ret'.outcome = "returned"]_vars

\* The calls that write the journal when they return, by manager.
WritingCalls == {"push", "perform_undo", "perform_redo"}
OtherWritingCalls == {"other.push", "other.perform_undo", "other.perform_redo"}
\* The call that took the manager to `m` returned after changing its stacks.
Wrote(m) == m.ret.outcome = "returned" /\ m.ret.kind \in {"none", "undid", "redid"}
\* The document `d` holds exactly the stacks `u` and `r`, and none of the
\* records that only the stacks `ou` and `or` of the other manager hold.
OnlyWriter(d, u, r, ou, or) ==
    /\ d = Doc(u, r)
    /\ \A x \in {ou[i] : i \in DOMAIN ou} \cup {or[i] : i \in DOMAIN or} :
          ~InSeq(x, u \o r) => ~InSeq(x, d.undo \o d.redo)

\* C34: last writer wins.  When two managers have loaded the same journal
\* file and each makes mutating calls, the document after each call holds
\* the stacks of the manager that made the call; records that only the
\* other manager holds are not merged into it.
C34_LastWriterWins ==
    [][/\ (call'.name \in WritingCalls /\ Wrote(hm')) =>
             OnlyWriter(disk', undo', redo', other'.undo, other'.redo)
       /\ (call'.name \in OtherWritingCalls /\ Wrote(other')) =>
             OnlyWriter(disk', other'.undo, other'.redo, undo', redo')]_vars
\* The second manager pushed and wrote, then the first pushed: the file holds
\* the first manager's record and no longer the second's.
C34_Witness ==
    /\ call.name = "push" /\ Len(undo) = 1 /\ redo = <<>>
    /\ Len(other.undo) = 1 /\ other.undo[1].aliases = <<B1>>
    /\ disk = Doc(undo, <<>>) /\ ~InSeq(other.undo[1], disk.undo)

\* C35: from empty stacks and through the public entry points only,
\* len(undo) + len(redo) <= 20 in every reachable state; so the trimming
\* step of perform_undo, perform_redo and the by-id variants never evicts a
\* record (a replay keeps the number of records), and only push evicts.
C35_SumBounded ==
    /\ [](Len(undo) + Len(redo) <= MAX_HISTORY)
    /\ [][call'.name \in ReplayCalls =>
             Len(undo') + Len(redo') = Len(undo) + Len(redo)]_vars
\* All twenty records of a full undo stack were undone: redo is full, and
\* the push that can follow evicts nothing from an empty undo stack.
C35_Witness ==
    /\ call.name = "perform_undo" /\ ret.kind = "undid"
    /\ undo = <<>> /\ Len(redo) = MAX_HISTORY

\* perform_undo_by_id(k) followed at once by perform_redo, from `m`: redo is
\* as it was, and undo holds the record that had id k as its most recent
\* entry, after the other records in the order they had.
ByIdThenRedo(m, k) ==
    LET i == Len(m.undo) - k + 1
        b == HMPerformRedo(HMPerformUndoById(m, k, NoFail), NoFail)
    IN  /\ b.redo = m.redo
        /\ b.undo = Append(DelAt(m.undo, i), m.undo[i])
        /\ k = 1 => b.undo = m.undo

\* C36: perform_undo_by_id with a valid id k followed immediately by
\* perform_redo leaves redo as it was before the two calls and leaves undo
\* with the same records, the replayed record now the most recent entry and
\* the others in their original relative order (for k = 1 undo is exactly
\* restored).
C36_ByIdThenRedo == \A k \in 1..Len(undo) : ByIdThenRedo(hm, k)

\* C37: for every operation type and both directions, the counts of a
\* replay satisfy performed + skipped <= total, total being the batch size
\* the result message reports (the length of the record's aliases); an item
\* whose store action returns a falsy value without raising is counted
\* neither as performed nor as skipped.
C37_CountsWithinTotal ==
    HasReplayed => ret.performed + ret.skipped <= Len(ReplayedRec.aliases)

\* The 20 most recent records of a stack, in the stack's order.
MostRecent(s) ==
    IF Len(s) <= 20 THEN s ELSE [i \in 1..20 |-> s[Len(s) - 20 + i]]

SkippedUnchanged(st, rec, direction, F) ==
    LET e == ExecuteOperation(st, rec, direction, F) IN
    (~e.raised /\ e.skipped > 0
        /\ e.skipped = Len(BatchOf(rec, direction = "undo"))) => e.st = st

\* C39: an item that a replay counts as skipped leaves the store unchanged
\* for that item: when the store raises part-way through the remove-then-add
\* of edit and rename, the store holds for the names involved what it held
\* before the item was attempted.
C39_SkippedUnchanged ==
    undo # <<>> =>
        \A F \in FailModes, direction \in {"undo", "redo"} :
            SkippedUnchanged(store, Last(undo), direction, F)

\* The names the store holds.
StoreNames(st) == {n \in Names : st[n] # Absent}

\* C40: undo or redo of a group_* or tag_* record leaves the set of alias
\* names in the store unchanged: it adds no name that was absent before the
\* replay (an alias removed after the record was pushed) and removes none.
C40_NamesUnchanged ==
    [][(call'.name \in ReplayCalls /\ ret'.outcome = "returned"
           /\ ret'.kind \in {"undid", "redid"}
           /\ (IF ret'.kind = "undid" THEN Last(redo') ELSE Last(undo')).type
                 \in GroupTagTypes) =>
          StoreNames(store') = StoreNames(store)]_vars

====
